---------------------------- MODULE Spec2Model ----------------------------
(***************************************************************************)
(* A model of the skin container of webamp-modern-2:                       *)
(*   src/packages/webamp-modern-2/src/skin/Group.ts  (class Group)         *)
(*                                                                         *)
(* JavaScript strings are sequences of one-character strings, so that      *)
(* toLowerCase, join and template literals are computed, not assumed.      *)
(* A value that may be undefined is None (<<>>) or Some(v) (<<v>>).        *)
(***************************************************************************)
EXTENDS Integers, Sequences, FiniteSets, TLC

VARIABLES
    fields,         \* [Groups -> the Group's own fields (Group.ts 9-16, GuiObj._id)]
    children,       \* [Groups -> Seq(Groups)]        Group._children
    systemObjects,  \* [Groups -> Seq(SysObjs)]       Group._systemObjects
    parentGroup,    \* [SysObjs -> None | Some(g)]    SystemObject's back-reference
    div,            \* [Groups -> the render target of the Group (GuiObj._div)]
    last            \* the last call made on the tree and what it gave back

vars == <<fields, children, systemObjects, parentGroup, div, last>>

----------------------------------------------------------------------------
(* Bounds of the model.                                                    *)

\* The containers of a tree.
NumGroups == 3
\* The system objects there are to attach.
NumSystemObjects == 2
\* The calls of addSystemObject made on a tree, over all its containers.
MaxAttachments == 2

Groups == 1..NumGroups
SysObjs == 1..NumSystemObjects

None == <<>>
Some(x) == <<x>>

----------------------------------------------------------------------------
(* Strings.                                                                *)

UpperCaseLetters ==
    <<"A","B","C","D","E","F","G","H","I","J","K","L","M",
      "N","O","P","Q","R","S","T","U","V","W","X","Y","Z">>

LowerCaseLetters ==
    <<"a","b","c","d","e","f","g","h","i","j","k","l","m",
      "n","o","p","q","r","s","t","u","v","w","x","y","z">>

\* The lower-case letter of each upper-case letter.
LowerCaseOf ==
    [c \in {UpperCaseLetters[i] : i \in 1..Len(UpperCaseLetters)} |->
        LowerCaseLetters[CHOOSE i \in 1..Len(UpperCaseLetters) : UpperCaseLetters[i] = c]]

toLowerCaseChar(c) == IF c \in DOMAIN LowerCaseOf THEN LowerCaseOf[c] ELSE c

\* String.prototype.toLowerCase
toLowerCase(s) == [i \in 1..Len(s) |-> toLowerCaseChar(s[i])]

\* The attribute keys of Group.setXmlAttr's switch, and "id" of the base type.
Key_id == <<"i","d">>
Key_instance_id == <<"i","n","s","t","a","n","c","e","_","i","d">>
Key_background == <<"b","a","c","k","g","r","o","u","n","d">>
Key_drawbackground == <<"d","r","a","w","b","a","c","k","g","r","o","u","n","d">>
Key_minimum_h == <<"m","i","n","i","m","u","m","_","h">>
Key_minimum_w == <<"m","i","n","i","m","u","m","_","w">>
Key_maximum_h == <<"m","a","x","i","m","u","m","_","h">>
Key_maximum_w == <<"m","a","x","i","m","u","m","_","w">>

----------------------------------------------------------------------------
(* Attribute coercion utilities (../utils).                                *)

Digits == <<"0","1","2","3","4","5","6","7","8","9">>

IsDigit(c) == \E i \in 1..Len(Digits) : Digits[i] = c

DigitValue(c) == (CHOOSE i \in 1..Len(Digits) : Digits[i] = c) - 1

RECURSIVE DecimalValue(_)
DecimalValue(s) ==
    IF s = <<>> THEN 0
    ELSE 10 * DecimalValue(SubSeq(s, 1, Len(s) - 1)) + DigitValue(s[Len(s)])

\* Utils.toBool: None is a coercion failure.
toBool(value) ==
    IF value = <<"1">> THEN Some(TRUE)
    ELSE IF value = <<"0">> THEN Some(FALSE)
    ELSE None

\* Utils.num: None is a coercion failure.
num(value) ==
    IF value # <<>> /\ \A i \in 1..Len(value) : IsDigit(value[i])
    THEN Some(DecimalValue(value))
    ELSE None

\* Utils.px: an unset length is the empty string.
px(size) == IF size = None THEN <<>> ELSE <<size[1], "px">>

----------------------------------------------------------------------------
(* Fields of a Group.                                                      *)

NewGroup ==
    [ _id |-> None, _instanceId |-> None, _background |-> None,
      _drawBackground |-> None,
      _minimumHeight |-> None, _maximumHeight |-> None,
      _minimumWidth |-> None, _maximumWidth |-> None ]

NewDiv ==
    [ objName |-> None, height |-> None, width |-> None,
      background |-> None, childNodes |-> <<>> ]

\* A JavaScript string, possibly undefined, used as a condition.
TruthyString(v) == v # None /\ v[1] # <<>>

\* A JavaScript boolean, possibly undefined, used as a condition.
TruthyBool(v) == v # None /\ v[1]

\* GuiObj.setXmlAttr: the base type's resolver.  It answers the key it is
\* handed; the declared id is stored in lower case.
GuiObj_setXmlAttr(obj, key, value) ==
    IF key = Key_id
    THEN [handled |-> TRUE, obj |-> [obj EXCEPT !._id = Some(toLowerCase(value))]]
    ELSE [handled |-> FALSE, obj |-> obj]

Returned(obj, baseKey, ret) ==
    [obj |-> obj, baseKey |-> baseKey, thrown |-> FALSE, ret |-> Some(ret)]

Thrown(obj, baseKey) ==
    [obj |-> obj, baseKey |-> baseKey, thrown |-> TRUE, ret |-> None]

\* An assignment  this.<field> = coerce(value) : a failed coercion throws
\* before the field is written.
Assign(obj, baseKey, field, coerced) ==
    IF coerced = None
    THEN Thrown(obj, baseKey)
    ELSE Returned([obj EXCEPT ![field] = coerced], baseKey, TRUE)

\* Group.setXmlAttr with the key matched as it was written.
Group_setXmlAttr_keyAsWritten(obj, _key, value) ==
    LET key == _key
        base == GuiObj_setXmlAttr(obj, key, value)
    IN  IF base.handled THEN Returned(base.obj, key, TRUE)
        ELSE CASE key = Key_instance_id -> Assign(obj, key, "_instanceId", Some(value))
               [] key = Key_background -> Assign(obj, key, "_background", Some(value))
               [] key = Key_drawbackground -> Assign(obj, key, "_drawBackground", toBool(value))
               [] key = Key_minimum_h -> Assign(obj, key, "_minimumHeight", num(value))
               [] key = Key_minimum_w -> Assign(obj, key, "_minimumWidth", num(value))
               [] key = Key_maximum_h -> Assign(obj, key, "_maximumHeight", num(value))
               [] key = Key_maximum_w -> Assign(obj, key, "_maximumWidth", num(value))
               [] OTHER -> Returned(obj, key, FALSE)

\* Group.setXmlAttr with minimum_w written to the height.
Group_setXmlAttr_widthToHeight(obj, _key, value) ==
    LET key == toLowerCase(_key)
        base == GuiObj_setXmlAttr(obj, key, value)
    IN  IF base.handled THEN Returned(base.obj, key, TRUE)
        ELSE CASE key = Key_instance_id -> Assign(obj, key, "_instanceId", Some(value))
               [] key = Key_background -> Assign(obj, key, "_background", Some(value))
               [] key = Key_drawbackground -> Assign(obj, key, "_drawBackground", toBool(value))
               [] key = Key_minimum_h -> Assign(obj, key, "_minimumHeight", num(value))
               [] key = Key_minimum_w -> Assign(obj, key, "_minimumHeight", num(value))
               [] key = Key_maximum_h -> Assign(obj, key, "_maximumHeight", num(value))
               [] key = Key_maximum_w -> Assign(obj, key, "_maximumWidth", num(value))
               [] OTHER -> Returned(obj, key, FALSE)

\* Group.setXmlAttr
Group_setXmlAttr(obj, _key, value) ==
    LET key == toLowerCase(_key)
        base == GuiObj_setXmlAttr(obj, key, value)
    IN  IF base.handled THEN Returned(base.obj, key, TRUE)
        ELSE CASE key = Key_instance_id -> Assign(obj, key, "_instanceId", Some(value))
               [] key = Key_background -> Assign(obj, key, "_background", Some(value))
               [] key = Key_drawbackground -> Assign(obj, key, "_drawBackground", toBool(value))
               [] key = Key_minimum_h -> Assign(obj, key, "_minimumHeight", num(value))
               [] key = Key_minimum_w -> Assign(obj, key, "_minimumWidth", num(value))
               [] key = Key_maximum_h -> Assign(obj, key, "_maximumHeight", num(value))
               [] key = Key_maximum_w -> Assign(obj, key, "_maximumWidth", num(value))
               [] OTHER -> Returned(obj, key, FALSE)

\* Group.getId with ?? in place of ||.
getId_nullish(obj) == IF obj._instanceId # None THEN obj._instanceId ELSE obj._id

\* Group.getId
getId(obj) == IF TruthyString(obj._instanceId) THEN obj._instanceId ELSE obj._id

----------------------------------------------------------------------------
(* The tree.                                                               *)

Range(s) == {s[i] : i \in 1..Len(s)}

RECURSIVE Flatten(_)
Flatten(ss) == IF ss = <<>> THEN <<>> ELSE Head(ss) \o Flatten(Tail(ss))

\* The groups below g, g included.
RECURSIVE Subtree(_)
Subtree(g) == {g} \cup UNION {Subtree(children[g][i]) : i \in 1..Len(children[g])}

HasParent(c) == \E g \in Groups : c \in Range(children[g])

Init ==
    /\ fields = [g \in Groups |-> NewGroup]
    /\ children = [g \in Groups |-> <<>>]
    /\ systemObjects = [g \in Groups |-> <<>>]
    /\ parentGroup = [s \in SysObjs |-> None]
    /\ div = [g \in Groups |-> NewDiv]
    /\ last = [op |-> "new"]

\* Group.setXmlAttr, called by the markup parser on group g.
setXmlAttr(g, _key, value) ==
    LET r == Group_setXmlAttr(fields[g], _key, value)
    IN  /\ fields' = [fields EXCEPT ![g] = r.obj]
        /\ last' = [op |-> "setXmlAttr", g |-> g, key |-> _key,
                     ret |-> r.ret, thrown |-> r.thrown]
        /\ UNCHANGED <<children, systemObjects, parentGroup, div>>

\* SystemObject.setParentGroup: the back-reference names the last group set.
setParentGroup(s, g) == [parentGroup EXCEPT ![s] = Some(g)]

\* The system objects attached so far, over all groups.
RECURSIVE Attachments(_)
Attachments(gs) ==
    IF gs = {} THEN 0
    ELSE LET g == CHOOSE x \in gs : TRUE
         IN  Len(systemObjects[g]) + Attachments(gs \ {g})

\* Group.addSystemObject
addSystemObject(g, s) ==
    /\ Attachments(Groups) < MaxAttachments
    /\ parentGroup' = setParentGroup(s, g)
    /\ systemObjects' = [systemObjects EXCEPT ![g] = Append(@, s)]
    /\ last' = [op |-> "addSystemObject"]
    /\ UNCHANGED <<fields, children, div>>

\* Group.addChild.  Groups are numbered in the order the markup parser
\* makes them: one object per element, a parent before its children, each
\* child given once to its parent, the children of an element in document
\* order.
addChild(g, child) ==
    /\ ~HasParent(child)
    /\ child > g
    /\ \A i \in 1..Len(children[g]) : child > children[g][i]
    /\ children' = [children EXCEPT ![g] = Append(@, child)]
    /\ last' = [op |-> "addChild"]
    /\ UNCHANGED <<fields, systemObjects, parentGroup, div>>

\* The template literal and the join of Group.getobject's error.
Undefined == <<"u","n","d","e","f","i","n","e","d">>

\* `${x}`
TemplateString(x) == IF x = None THEN Undefined ELSE x[1]

\* Array.prototype.join's rendering of one element.
JoinString(x) == IF x = None THEN <<>> ELSE x[1]

\* Array.prototype.join(", ")
RECURSIVE join(_)
join(ids) ==
    IF ids = <<>> THEN <<>>
    ELSE IF Len(ids) = 1 THEN JoinString(ids[1])
    ELSE JoinString(ids[1]) \o <<",", " ">> \o join(Tail(ids))

\* The loop of Group.getobject: the first child from position i on whose
\* id is the lower-cased objectId, or 0.
RECURSIVE getobject_scan(_, _, _)
getobject_scan(g, lower, i) ==
    IF i > Len(children[g]) THEN 0
    ELSE IF getId(fields[children[g][i]]) = Some(lower) THEN i
    ELSE getobject_scan(g, lower, i + 1)

\* The ids found, taken from the declared ids.
getobject_foundIds_declared(g) ==
    join([i \in 1..Len(children[g]) |-> fields[children[g][i]]._id])

getobject_foundIds(g) ==
    join([i \in 1..Len(children[g]) |-> getId(fields[children[g][i]])])

\* Group.getobject searching the whole subtree.
Group_getobject_deep(g, objectId) ==
    LET lower == toLowerCase(objectId)
        found == {d \in Subtree(g) \ {g} : getId(fields[d]) = Some(lower)}
    IN  IF found # {}
        THEN [thrown |-> FALSE, ret |-> Some(CHOOSE d \in found : \A e \in found : d <= e),
              message |-> None]
        ELSE [thrown |-> TRUE, ret |-> None,
              message |-> Some(<<"Could not find an object with the id: \"", objectId,
                                 "\" within object \"", TemplateString(getId(fields[g])),
                                 "\". Only found: ", getobject_foundIds(g)>>)]

\* Group.getobject
Group_getobject(g, objectId) ==
    LET lower == toLowerCase(objectId)
        i == getobject_scan(g, lower, 1)
    IN  IF i # 0
        THEN [thrown |-> FALSE, ret |-> Some(children[g][i]), message |-> None]
        ELSE [thrown |-> TRUE, ret |-> None,
              message |-> Some(<<"Could not find an object with the id: \"", objectId,
                                 "\" within object \"", TemplateString(getId(fields[g])),
                                 "\". Only found: ", getobject_foundIds(g)>>)]

\* Group.getobject, called by the scripting bridge on group g.
getobject(g, objectId) ==
    LET r == Group_getobject(g, objectId)
    IN  /\ last' = [op |-> "getobject", g |-> g, objectId |-> objectId,
                     ret |-> r.ret, thrown |-> r.thrown, message |-> r.message]
        /\ UNCHANGED <<fields, children, systemObjects, parentGroup, div>>

----------------------------------------------------------------------------
(* Initialization.                                                         *)

InitCall(g, kind, target, context) ==
    [ev |-> "init.call", obj |-> g, kind |-> kind, target |-> target, arg |-> context]

InitReturn(g, kind, target, context) ==
    [ev |-> "init.return", obj |-> g, kind |-> kind, target |-> target, arg |-> context]

\* SystemObject.init: a call that returns.
SystemObject_init(g, s, context) ==
    <<InitCall(g, "SystemObject", s, context), InitReturn(g, "SystemObject", s, context)>>

\* Group.init with the children before the system objects.
RECURSIVE Group_init_childrenFirst(_, _)
Group_init_childrenFirst(g, context) ==
    Flatten([i \in 1..Len(children[g]) |->
                <<InitCall(g, "GuiObj", children[g][i], context)>>
                \o Group_init_childrenFirst(children[g][i], context)
                \o <<InitReturn(g, "GuiObj", children[g][i], context)>>])
    \o
    Flatten([i \in 1..Len(systemObjects[g]) |->
                SystemObject_init(g, systemObjects[g][i], context)])

\* Group.init: the calls made, in the order they are made and return.
RECURSIVE Group_init(_, _)
Group_init(g, context) ==
    Flatten([i \in 1..Len(systemObjects[g]) |->
                SystemObject_init(g, systemObjects[g][i], context)])
    \o
    Flatten([i \in 1..Len(children[g]) |->
                <<InitCall(g, "GuiObj", children[g][i], context)>>
                \o Group_init(children[g][i], context)
                \o <<InitReturn(g, "GuiObj", children[g][i], context)>>])

\* Group.init, called on group g.
init(g, context) ==
    /\ last' = [op |-> "init", g |-> g, context |-> context,
                 trace |-> Group_init(g, context)]
    /\ UNCHANGED <<fields, children, systemObjects, parentGroup, div>>

----------------------------------------------------------------------------
(* Rendering.                                                              *)

DrawEvent(ev, g, target, arg) == [ev |-> ev, obj |-> g, target |-> target, arg |-> arg]

\* UI_ROOT.getBitmap(ref).getBackgrondCSSAttribute()
getBackgrondCSSAttribute(ref) == <<"url", ref>>

\* Node.appendChild: the node leaves the parent it has and becomes the
\* last child of its new parent.
appendChild(divs, parent, child) ==
    LET removed == [g \in Groups |->
                      [divs[g] EXCEPT !.childNodes = SelectSeq(@, LAMBDA n : n # child)]]
    IN  [removed EXCEPT ![parent].childNodes = Append(@, child)]

\* GuiObj.draw: the base render; it leaves the attributes modelled here alone.
GuiObj_draw(g, st) ==
    [st EXCEPT !.trace = Append(@, DrawEvent("GuiObj.draw", g, 0, None))]

\* Lines 92-98 of Group.draw: the group's own render target.
Group_draw_own(g, st) ==
    LET obj == fields[g]
        st1 == GuiObj_draw(g, st)
        st2 == [st1 EXCEPT !.divs[g].objName = Some("Group"),
                           !.divs[g].height = Some(px(obj._maximumHeight)),
                           !.divs[g].width = Some(px(obj._maximumWidth))]
    IN  IF obj._background # None /\ TruthyBool(obj._drawBackground)
        THEN [st2 EXCEPT
                !.trace = Append(@, DrawEvent("getBitmap", g, 0, obj._background)),
                !.divs[g].background = Some(getBackgrondCSSAttribute(obj._background[1]))]
        ELSE st2

\* Group.draw: st is the render targets and the calls made so far.
RECURSIVE Group_draw(_, _)
RECURSIVE Group_draw_children(_, _, _)
RECURSIVE Group_draw_children_appendFirst(_, _, _)

\* The loop of Group.draw with the child attached before it is rendered.
Group_draw_children_appendFirst(g, i, st) ==
    IF i > Len(children[g]) THEN st
    ELSE LET child == children[g][i]
             st1 == [st EXCEPT
                        !.trace = Append(@, DrawEvent("appendChild", g, child, None)),
                        !.divs = appendChild(@, g, child)]
             st2 == [st1 EXCEPT !.trace = Append(@, DrawEvent("draw.call", g, child, None))]
             st3 == Group_draw(child, st2)
             st4 == [st3 EXCEPT !.trace = Append(@, DrawEvent("draw.return", g, child, None))]
         IN  Group_draw_children_appendFirst(g, i + 1, st4)

Group_draw(g, st) ==
    Group_draw_children(g, 1, Group_draw_own(g, st))

Group_draw_children(g, i, st) ==
    IF i > Len(children[g]) THEN st
    ELSE LET child == children[g][i]
             st1 == [st EXCEPT !.trace = Append(@, DrawEvent("draw.call", g, child, None))]
             st2 == Group_draw(child, st1)
             st3 == [st2 EXCEPT !.trace = Append(@, DrawEvent("draw.return", g, child, None))]
             st4 == [st3 EXCEPT
                        !.trace = Append(@, DrawEvent("appendChild", g, child, None)),
                        !.divs = appendChild(@, g, child)]
         IN  Group_draw_children(g, i + 1, st4)

\* Group.draw, called on group g.
draw(g) ==
    LET st == Group_draw(g, [divs |-> div, trace |-> <<>>])
    IN  /\ div' = st.divs
        /\ last' = [op |-> "draw", g |-> g, trace |-> st.trace]
        /\ UNCHANGED <<fields, children, systemObjects, parentGroup>>

----------------------------------------------------------------------------
(* Inputs.                                                                 *)

toUpperCaseChar(c) ==
    IF \E i \in 1..Len(LowerCaseLetters) : LowerCaseLetters[i] = c
    THEN UpperCaseLetters[CHOOSE i \in 1..Len(LowerCaseLetters) : LowerCaseLetters[i] = c]
    ELSE c

toUpperCase(s) == [i \in 1..Len(s) |-> toUpperCaseChar(s[i])]

Capitalized(s) == <<toUpperCaseChar(s[1])>> \o Tail(s)

GroupKeys ==
    {Key_instance_id, Key_background, Key_drawbackground,
     Key_minimum_h, Key_minimum_w, Key_maximum_h, Key_maximum_w}

UnknownKeys == {<<"x">>}

\* Keys as markup writes them: lower case, capitalized, upper case.
InputKeys ==
    GroupKeys \cup {Key_id} \cup UnknownKeys
        \cup {Capitalized(k) : k \in {Key_background, Key_minimum_w, <<"x">>}}
        \cup {toUpperCase(k) : k \in {Key_id, Key_instance_id}}

AttrValues == {<<>>, <<"a","B">>, <<"1">>}

\* The declared id and the instance id given to containers of a tree.
IdInputs == {<<Key_id, <<"A">> >>, <<Key_instance_id, <<"B">> >>}

SizeInputs == {<<Key_maximum_w, <<"2","0","0">> >>, <<Key_maximum_h, <<"5","0">> >>}

Contexts == {"contextA", "contextB"}

\* The background attributes given to containers that are rendered.
BackgroundInputs ==
    {<<Key_background, <<"b","g">> >>, <<Key_drawbackground, <<"1">> >>,
     <<Key_drawbackground, <<"0">> >>}

ObjectIds == {<<"A">>, <<"b">>}

\* Attributes applied to one container.
NextAttr == \E k \in InputKeys, v \in AttrValues : setXmlAttr(1, k, v)

SpecAttr == Init /\ [][NextAttr]_vars

\* A tree of containers with ids, queried by the scripting bridge.
NextLookup ==
    \/ \E g \in Groups, kv \in IdInputs : setXmlAttr(g, kv[1], kv[2])
    \/ \E g \in Groups, c \in Groups : addChild(g, c)
    \/ \E g \in Groups, o \in ObjectIds : getobject(g, o)

SpecLookup == Init /\ [][NextLookup]_vars

\* A tree of containers and system objects, initialized.
NextInit ==
    \/ \E g \in Groups, c \in Groups : addChild(g, c)
    \/ \E g \in Groups, s \in SysObjs : addSystemObject(g, s)
    \/ \E g \in Groups, c \in Contexts : init(g, c)

SpecInit == Init /\ [][NextInit]_vars

\* A tree of containers, rendered.
NextDraw ==
    \/ \E g \in Groups : setXmlAttr(g, Key_maximum_w, <<"2","0","0">>)
    \/ \E g \in Groups, c \in Groups : addChild(g, c)
    \/ \E g \in Groups : draw(g)

SpecDraw == Init /\ [][NextDraw]_vars

\* One container with a background and a size, rendered again and again.
NextBackground ==
    \/ \E kv \in BackgroundInputs \cup SizeInputs : setXmlAttr(1, kv[1], kv[2])
    \/ draw(1)

SpecBackground == Init /\ [][NextBackground]_vars

----------------------------------------------------------------------------
(* Properties.                                                             *)

Min(S) == CHOOSE x \in S : \A y \in S : x <= y

\* The positions of a sequence whose element satisfies Test.
Positions(t, Test(_)) == {p \in 1..Len(t) : Test(t[p])}

\* String.prototype.split(", ")
RECURSIVE SplitFrom(_, _)
SplitFrom(s, cur) ==
    IF s = <<>> THEN <<cur>>
    ELSE IF Len(s) >= 2 /\ s[1] = "," /\ s[2] = " "
         THEN <<cur>> \o SplitFrom(SubSeq(s, 3, Len(s)), <<>>)
         ELSE SplitFrom(Tail(s), Append(cur, s[1]))

Split(s) == SplitFrom(s, <<>>)

\* The children of g whose resolved id is objectId, letter case ignored.
MatchesIgnoringCase(g, objectId) ==
    {i \in 1..Len(children[g]) :
        LET id == getId(fields[children[g][i]])
        IN  id # None /\ toLowerCase(id[1]) = toLowerCase(objectId)}

\* The children of g whose resolved id is the lower-cased objectId.
MatchesLowered(g, objectId) ==
    {i \in 1..Len(children[g]) :
        getId(fields[children[g][i]]) = Some(toLowerCase(objectId))}

(* C1: whenever some direct child's resolved id equals the requested id   *)
(* with letter case ignored, getobject returns such a child and raises no *)
(* error, children with an upper-case instance id included.               *)
C1_FindChildIgnoresCase ==
    last.op = "getobject" =>
        LET m == MatchesIgnoringCase(last.g, last.objectId)
        IN  m # {} =>
                /\ ~last.thrown
                /\ last.ret # None
                /\ \E i \in m : last.ret = Some(children[last.g][i])

\* What the error of a getobject that matches no direct child holds.
C2_MissMessage ==
    last.op = "getobject" /\ MatchesLowered(last.g, last.objectId) = {} =>
        /\ last.thrown
        /\ last.ret = None
        /\ last.message # None
        /\ last.message[1][2] = last.objectId
        /\ last.message[1][4] = TemplateString(getId(fields[last.g]))
        /\ IF children[last.g] = <<>>
           THEN last.message[1][6] = <<>>
           ELSE Split(last.message[1][6]) =
                    [i \in 1..Len(children[last.g]) |->
                        JoinString(getId(fields[children[last.g][i]]))]

\* A getobject that raises the error leaves the tree as it was.
C2_MissChangesNothing ==
    (last'.op = "getobject" /\ last'.thrown) =>
        UNCHANGED <<fields, children, systemObjects, parentGroup, div>>

(* C2: a getobject that matches no direct child raises an error and       *)
(* returns nothing; the message holds the requested id, the resolved id   *)
(* of the searching container and the resolved ids of the direct children *)
(* in declaration order joined by ", "; the tree is left as it was.       *)
C2_LookupError == [](C2_MissMessage) /\ [][C2_MissChangesNothing]_vars

C2_Witness ==
    /\ last.op = "getobject"
    /\ last.thrown
    /\ Len(children[last.g]) = 2
    /\ fields[last.g]._id # None
    /\ \E i \in 1..2 : fields[children[last.g][i]]._instanceId # None
    /\ \E i \in 1..2 : fields[children[last.g][i]]._instanceId = None
                        /\ fields[children[last.g][i]]._id # None

(* C3 as stated: getId returns the instance id whenever an instance_id    *)
(* has been set, whatever string it is, the empty string included, and    *)
(* the declared id otherwise.                                             *)
C3_GetIdAnyInstanceId ==
    \A g \in Groups :
        getId(fields[g]) = IF fields[g]._instanceId # None
                           THEN fields[g]._instanceId ELSE fields[g]._id

(* C3 as amended: getId returns the instance id when an instance_id has   *)
(* been set to a string that is not empty (the last value set), and the   *)
(* declared id otherwise, an instance_id set to the empty string included.*)
C3_GetId ==
    \A g \in Groups :
        /\ getId(fields[g]) = IF fields[g]._instanceId \notin {None, Some(<<>>)}
                               THEN fields[g]._instanceId ELSE fields[g]._id
        /\ \A v \in AttrValues :
              getId(Group_setXmlAttr(fields[g], Key_instance_id, v).obj) =
                  IF v # <<>> THEN Some(v) ELSE fields[g]._id

C3_Witness ==
    /\ last.op = "setXmlAttr"
    /\ toLowerCase(last.key) = Key_instance_id
    /\ fields[1]._instanceId = Some(<<"a","B">>)
    /\ fields[1]._id = Some(<<"1">>)

(* C4: init(context) on a container with N system objects and M children  *)
(* makes N + M calls of init, each with the same context: the system      *)
(* objects in attachment order, then the children in declaration order,   *)
(* and no child's init starts before the last system object's returned.   *)
C4_InitOrder ==
    last.op = "init" =>
        LET g == last.g
            t == last.trace
            IsCall(e) == e.ev = "init.call" /\ e.obj = g
            calls == SelectSeq(t, IsCall)
            N == Len(systemObjects[g])
            M == Len(children[g])
            IsSystemReturn(e) ==
                e.ev = "init.return" /\ e.obj = g /\ e.kind = "SystemObject"
            IsChildCall(e) == e.ev = "init.call" /\ e.obj = g /\ e.kind = "GuiObj"
        IN  /\ Len(calls) = N + M
            /\ \A i \in 1..N :
                  /\ calls[i].kind = "SystemObject"
                  /\ calls[i].target = systemObjects[g][i]
            /\ \A j \in 1..M :
                  /\ calls[N + j].kind = "GuiObj"
                  /\ calls[N + j].target = children[g][j]
            /\ \A p \in 1..Len(t) : t[p].arg = last.context
            /\ Cardinality(Positions(t, IsSystemReturn)) = N
            /\ \A p \in Positions(t, IsSystemReturn), q \in Positions(t, IsChildCall) : p < q

C4_Witness ==
    /\ last.op = "init"
    /\ Len(systemObjects[last.g]) = 2
    /\ systemObjects[last.g][1] # systemObjects[last.g][2]
    /\ Len(children[last.g]) = 2

(* C5: in a container's draw, each child's own draw returns before the    *)
(* child's render target is appended to the container's, and the          *)
(* container's render target receives the children's render targets one   *)
(* each, in declaration order.                                            *)
C5_RenderOrder ==
    last.op = "draw" =>
        \A g \in Subtree(last.g) :
            LET t == last.trace
                IsAppend(e) == e.ev = "appendChild" /\ e.obj = g
                appends == SelectSeq(t, IsAppend)
            IN  /\ [i \in 1..Len(appends) |-> appends[i].target] = children[g]
                /\ div[g].childNodes = children[g]
                /\ \A i \in 1..Len(children[g]) :
                      LET IsCallOf(e) == e.ev = "draw.call" /\ e.obj = g
                                            /\ e.target = children[g][i]
                          IsReturnOf(e) == e.ev = "draw.return" /\ e.obj = g
                                            /\ e.target = children[g][i]
                          IsAppendOf(e) == IsAppend(e) /\ e.target = children[g][i]
                      IN  /\ Cardinality(Positions(t, IsCallOf)) = 1
                          /\ Cardinality(Positions(t, IsReturnOf)) = 1
                          /\ Cardinality(Positions(t, IsAppendOf)) = 1
                          /\ \A c \in Positions(t, IsCallOf), r \in Positions(t, IsReturnOf),
                                a \in Positions(t, IsAppendOf) : c < r /\ r < a

C5_Witness ==
    /\ last.op = "draw"
    /\ Len(children[last.g]) = 2
    /\ div[last.g].childNodes = children[last.g]

(* C6: a draw asks the resource provider for the bitmap and leaves a      *)
(* background on the render target exactly when a background reference is *)
(* stored and the draw-background flag is true; after the flag is set to  *)
(* false a draw leaves the render target with no background.              *)
C6_BackgroundIff ==
    last.op = "draw" =>
        LET g == last.g
            wanted == fields[g]._background # None /\ TruthyBool(fields[g]._drawBackground)
            IsQuery(e) == e.ev = "getBitmap" /\ e.obj = g
        IN  /\ (Positions(last.trace, IsQuery) # {}) <=> wanted
            /\ (div[g].background # None) <=> wanted

\* The keys the base type answers.
BaseKeys == {Key_id}

\* The field of each container key.
FieldOf(key) ==
    CASE key = Key_instance_id -> "_instanceId"
      [] key = Key_background -> "_background"
      [] key = Key_drawbackground -> "_drawBackground"
      [] key = Key_minimum_h -> "_minimumHeight"
      [] key = Key_minimum_w -> "_minimumWidth"
      [] key = Key_maximum_h -> "_maximumHeight"
      [] key = Key_maximum_w -> "_maximumWidth"

\* The coercion of the table of the attribute protocol; None when it fails.
Coerced(key, value) ==
    CASE key \in {Key_instance_id, Key_background} -> Some(value)
      [] key = Key_drawbackground -> toBool(value)
      [] OTHER -> num(value)

\* A key neither type knows: false, no error, no field changed.
UnknownKeyIgnored(g, k, v) ==
    LET r == Group_setXmlAttr(fields[g], k, v)
    IN  toLowerCase(k) \notin GroupKeys \cup BaseKeys =>
            r.ret = Some(FALSE) /\ ~r.thrown /\ r.obj = fields[g]

(* C7 as stated: for every container key and every value, setXmlAttr      *)
(* returns true and the key's field holds the coerced value, nothing else *)
(* changed; for a key neither the base type nor the container knows it    *)
(* returns false, raises nothing and changes nothing.                     *)
C7_SetAttributeAnyValue ==
    last.op = "setXmlAttr" =>
        LET key == toLowerCase(last.key)
        IN  /\ key \in GroupKeys =>
                  /\ last.ret = Some(TRUE)
                  /\ ~last.thrown
                  /\ fields[last.g][FieldOf(key)] # None
            /\ key \notin GroupKeys \cup BaseKeys =>
                  last.ret = Some(FALSE) /\ ~last.thrown

\* What setXmlAttr gives for every key and value, from the state reached.
C7_SetAttributeState ==
    \A g \in Groups, k \in InputKeys, v \in AttrValues :
        LET key == toLowerCase(k)
            r == Group_setXmlAttr(fields[g], k, v)
        IN  /\ (key \in GroupKeys /\ Coerced(key, v) # None) =>
                  /\ r.ret = Some(TRUE)
                  /\ ~r.thrown
                  /\ r.obj = [fields[g] EXCEPT ![FieldOf(key)] = Coerced(key, v)]
            /\ (key \in GroupKeys /\ Coerced(key, v) = None) =>
                  /\ r.thrown
                  /\ r.ret = None
                  /\ r.obj = fields[g]
            /\ UnknownKeyIgnored(g, k, v)

\* A setXmlAttr leaves the lists and the other containers as they were.
C7_SetAttributeFrame ==
    last'.op = "setXmlAttr" =>
        /\ UNCHANGED <<children, systemObjects>>
        /\ \A h \in Groups \ {last'.g} : fields'[h] = fields[h]
        /\ last'.thrown => fields' = fields

(* C7 as amended: for every container key and every value its coercion    *)
(* accepts, setXmlAttr returns true and the key's field holds the coerced *)
(* value, nothing else changed; a value the coercion rejects raises the   *)
(* coercion failure and changes nothing; an unknown key returns false,    *)
(* raises nothing and changes nothing.                                    *)
C7_SetAttribute == [](C7_SetAttributeState) /\ [][C7_SetAttributeFrame]_vars

C7_Witness ==
    /\ last.op = "setXmlAttr"
    /\ toLowerCase(last.key) = Key_maximum_w
    /\ last.ret = Some(TRUE)
    /\ fields[1]._maximumWidth = Some(1)
    /\ fields[1]._drawBackground = Some(TRUE)
    /\ fields[1]._background = Some(<<"a","B">>)

(* C8: every system object has one parent: it is in the system-object     *)
(* list of at most one container, once, and that container is the one its *)
(* back-reference names.                                                  *)
C8_OneParent ==
    \A s \in SysObjs :
        LET owners == {g \in Groups : s \in Range(systemObjects[g])}
            IsS(x) == x = s
        IN  /\ Cardinality(owners) <= 1
            /\ \A g \in owners :
                  /\ parentGroup[s] = Some(g)
                  /\ Len(SelectSeq(systemObjects[g], IsS)) = 1

(* C9: a key and its lower-case form give the same return value and the   *)
(* same container state, and the base type's resolver is handed the       *)
(* lower-case key.                                                        *)
C9_KeyIgnoresCase ==
    \A g \in Groups, k \in InputKeys, v \in AttrValues :
        LET asWritten == Group_setXmlAttr(fields[g], k, v)
            lowered == Group_setXmlAttr(fields[g], toLowerCase(k), v)
        IN  /\ asWritten.ret = lowered.ret
            /\ asWritten.thrown = lowered.thrown
            /\ asWritten.obj = lowered.obj
            /\ asWritten.baseKey = toLowerCase(k)

C9_Witness ==
    /\ last.op = "setXmlAttr"
    /\ last.key # toLowerCase(last.key)
    /\ toLowerCase(last.key) = Key_background
    /\ last.ret = Some(TRUE)
    /\ fields[1]._background = Some(<<"1">>)

(* C10: getobject returns only an object of the container's own children  *)
(* list, the earliest in declaration order of those that match; when no   *)
(* direct child matches it raises the error, also when a system object or *)
(* a descendant further down has the id.                                  *)
C10_DirectChildrenOnly ==
    last.op = "getobject" =>
        LET m == MatchesLowered(last.g, last.objectId)
        IN  /\ last.ret # None => last.ret[1] \in Range(children[last.g])
            /\ m # {} => ~last.thrown /\ last.ret = Some(children[last.g][Min(m)])
            /\ m = {} => last.thrown /\ last.ret = None

C10_Witness ==
    /\ last.op = "getobject"
    /\ last.thrown
    /\ \E c \in Range(children[last.g]) : \E d \in Range(children[c]) :
          getId(fields[d]) = Some(toLowerCase(last.objectId))

============================================================================
